---- MODULE Spec2Model ----
(***************************************************************************)
(* A model of the two PyWren notebooks stored in                           *)
(* src/Lab-3-Scrape-Sentiment/news_analyzer.ipynb: the news scraping /     *)
(* sentiment notebook (lines 1-426) and the Landsat 8 NDVI notebook        *)
(* (lines 428-879).                                                        *)
(*                                                                         *)
(* The specifications share the variables:                                 *)
(*   SpecSplit   split_list applied to bounded inputs                      *)
(*   SpecWords   the all_words aggregation loop and the top20 selection    *)
(*   SpecSeries  filter(None, ...) and the three series projections        *)
(*   SpecScenes  getSceneList applied to bounded API responses             *)
(*   SpecIndex   the loop that builds the tag cloud index page             *)
(*   Spec        the orchestration of either notebook: map,                *)
(*               get_all_results, the remote workers, the local steps      *)
(*   FairSpec    Spec with the fairness of a running kernel and of the     *)
(*               remote workers                                            *)
(***************************************************************************)
EXTENDS Integers, Sequences, FiniteSets, TLC

VARIABLES
    pc,            \* position of the single notebook thread
    alist,         \* split_list: its argument
    wanted_parts,  \* split_list: its argument
    batches,       \* split_list: the returned list of sub-lists
    db_items,      \* db_table['Items']
    all_words,     \* the count map of the aggregation loop
    item_i,        \* index of the outer loop (for item in db_table['Items'])
    word_i,        \* index of the inner loop (for word in item['words'])
    top20,         \* dict(sorted(...)[:20])
    x,             \* top20.keys()
    frequency,     \* top20.values()
    loc,           \* which location the Landsat notebook is working on
    scenesHK,      \* getSceneList('114.1095,22.3964')
    scenesQLD,     \* getSceneList('147.870599,-28.744617')
    futures,       \* the handles returned by the last pwex.map
    resultsHK,     \* pywren.get_all_results(...) for Hong Kong
    resultsQLD,    \* pywren.get_all_results(...) for Queensland
    results,       \* filter(None, resultsHK) of the table cell
    html,          \* the rows of the rendered table
    timeSeries,    \* filter(None, results...)
    timeStamps,    \* projected series
    ndviSeries,    \* projected series
    cloudSeries,   \* projected series
    links,         \* pywren.get_all_results(...) of the GDELT query
    table,         \* the items of pywren-workshop-gdelt-table
    sentiments,    \* the sentiment series of the histogram
    sceneMetaData, \* getSceneList: sceneMetaData["results"] of the last call
    tag_links,     \* the list that line 355 binds to the name links
    s3_objects,    \* the keys of the objects written to the S3 bucket
    output,        \* the index page under construction
    link_i,        \* index of the loop of line 381 (for link in links)
    index_i        \* the counter i of lines 380-387

splitVars == <<alist, wanted_parts, batches>>
wordVars == <<db_items, all_words, item_i, word_i, top20, x, frequency>>
seriesVars == <<timeSeries, timeStamps, ndviSeries, cloudSeries>>
landsatVars == <<loc, scenesHK, scenesQLD, futures, resultsHK, resultsQLD, results, html>>
newsVars == <<links, table, sentiments>>
cloudVars == <<tag_links, s3_objects, output, link_i, index_i>>
vars == <<pc, splitVars, wordVars, seriesVars, landsatVars, newsVars, sceneMetaData, cloudVars>>

-----------------------------------------------------------------------------
(* Bounds of the model *)

MaxLen == 5
MaxParts == 3
MaxItems == 2
MaxResults == 3
MaxScenes == 2
MaxLinks == 3

-----------------------------------------------------------------------------
(* Generic helpers *)

Min(a, b) == IF a < b THEN a ELSE b

\* Python's seq[:n]
Take(s, n) == SubSeq(s, 1, Min(Len(s), n))

SeqsUpTo(S, n) == UNION {[1..k -> S] : k \in 0..n}

RECURSIVE Flatten(_)
Flatten(ss) == IF ss = <<>> THEN <<>> ELSE Head(ss) \o Flatten(Tail(ss))


-----------------------------------------------------------------------------
(* split_list, news notebook lines 69-72 *)

WorkItems == {"u1", "u2", "u3", "u4", "u5"}

\* A chunking that gives every part length // wanted_parts items.
split_list_fixed_chunk(l, parts) ==
    LET n == Len(l) \div parts
    IN  [i \in 1..parts |-> SubSeq(l, (i - 1) * n + 1, i * n)]

\* A chunking whose last part takes all the rest.
split_list_rest_last(l, parts) ==
    LET n == Len(l) \div parts
    IN  [i \in 1..parts |->
            IF i = parts THEN SubSeq(l, (i - 1) * n + 1, Len(l))
            ELSE SubSeq(l, (i - 1) * n + 1, i * n)]

\* A chunking that rounds the cut points up instead of down.
split_list_ceil(l, parts) ==
    LET length == Len(l)
        cut(i) == (i * length + parts - 1) \div parts
    IN  [i \in 1..parts |-> SubSeq(l, cut(i - 1) + 1, cut(i))]

\* A chunking by slices of ceil(length / wanted_parts) items, empty slices dropped.
split_list_by_size(l, parts) ==
    LET length == Len(l)
        n == (length + parts - 1) \div parts
        k == IF n = 0 THEN 0 ELSE (length + n - 1) \div n
    IN  [i \in 1..k |-> SubSeq(l, (i - 1) * n + 1, Min(i * n, length))]

\* alist[i*length // wanted_parts : (i+1)*length // wanted_parts] for i in
\* range(wanted_parts); Python's i is 0-based, the slice bounds a:b are the
\* 1-based positions a+1..b.
split_list(l, parts) ==
    LET length == Len(l)
    IN  [i \in 1..parts |->
            SubSeq(l, ((i - 1) * length) \div parts + 1, (i * length) \div parts)]

InitSplit ==
    /\ pc = "split_list"
    /\ alist \in SeqsUpTo(WorkItems, MaxLen)
    /\ wanted_parts \in 1..MaxParts
    /\ batches = <<>>

\* A call split_list(alist, wanted_parts=P) as in line 192.
CallSplitList ==
    /\ pc = "split_list"
    /\ batches' = split_list(alist, wanted_parts)
    /\ pc' = "split_done"
    /\ UNCHANGED <<alist, wanted_parts, wordVars, seriesVars, landsatVars, newsVars>>
    /\ UNCHANGED <<sceneMetaData, cloudVars>>

-----------------------------------------------------------------------------
(* Strings: a Python str is modelled as the sequence of its characters *)

Digits == {"0", "1", "2", "3", "4"}

DigitVal == ("0" :> 0) @@ ("1" :> 1) @@ ("2" :> 2) @@ ("3" :> 3) @@ ("4" :> 4)

\* Code points of the characters the model uses, the order str comparison uses.
Ord == ("0" :> 48) @@ ("1" :> 49) @@ ("2" :> 50) @@ ("3" :> 51) @@ ("4" :> 52)
       @@ (":" :> 58) @@ ("a" :> 97) @@ ("b" :> 98) @@ ("c" :> 99) @@ ("x" :> 120)

\* s < t for two str values: lexicographic by code point.
RECURSIVE StrLess(_, _)
StrLess(s, t) ==
    IF t = <<>> THEN FALSE
    ELSE IF s = <<>> THEN TRUE
    ELSE IF Head(s) # Head(t) THEN Ord[Head(s)] < Ord[Head(t)]
    ELSE StrLess(Tail(s), Tail(t))

\* word.split(':'): the fields between the separators; a string without a
\* separator gives the one-element list [word].
RECURSIVE str_split(_, _)
str_split(s, sep) ==
    IF \A i \in 1..Len(s) : s[i] # sep THEN <<s>>
    ELSE LET i == CHOOSE j \in 1..Len(s) :
                      s[j] = sep /\ \A k \in 1..(j - 1) : s[k] # sep
         IN  <<SubSeq(s, 1, i - 1)>> \o str_split(SubSeq(s, i + 1, Len(s)), sep)

\* int(s) raises ValueError unless s is a decimal literal.  (Over the model's
\* characters: no sign, no blanks.)
int_raises_ValueError(s) == s = <<>> \/ \E i \in 1..Len(s) : s[i] \notin Digits

RECURSIVE int_value(_)
int_value(s) ==
    IF s = <<>> THEN 0
    ELSE 10 * int_value(SubSeq(s, 1, Len(s) - 1)) + DigitVal[s[Len(s)]]

-----------------------------------------------------------------------------
(* The word-frequency aggregation, news notebook lines 255-270 *)

\* The number of "word:count" entries of all items of the table together.
MaxEntries == 3

\* The length of the cut in sorted(...)[:20], scaled down to the number of
\* distinct words the model's tokens can produce.
TopK == 2

\* The "word:count" strings the model's records hold: well formed ones, one
\* with a non-numeric count, one without separator, one with two separators.
Tokens ==
    { <<"a", ":", "3">>, <<"b", ":", "2">>, <<"a", ":", "1">>, <<"c", ":", "4">>,
      <<"a", ":", "x">>, <<"b">>, <<"a", ":", "1", ":", "2">> }

\* An item of the table as news_analyzer writes it (lines 174-181), with the
\* fields the notebook reads.
Item(link, sentiment, words) == [link |-> link, sentiment |-> sentiment, words |-> words]

\* The items whose words lists are the pieces of toks that end at cuts[1],
\* cuts[2], ...
ItemsOf(toks, cuts) ==
    [i \in 1..Len(cuts) |->
        Item(i, "0.5", SubSeq(toks, (IF i = 1 THEN 0 ELSE cuts[i - 1]) + 1, cuts[i]))]

EmptyDict == <<>>

dict_set(d, k, v) == [j \in DOMAIN d \cup {k} |-> IF j = k THEN v ELSE d[j]]

\* The body of the try statement, lines 259-262, for a word whose two
\* conversions succeed.
count_word(d, word) ==
    LET key == str_split(word, ":")[1]
        n == int_value(str_split(word, ":")[2])
    IN  IF key \in DOMAIN d THEN dict_set(d, key, d[key] + n)
        ELSE dict_set(d, key, n)

\* sorted(all_words.iteritems(), key=lambda (k, v): (-v, k)): the <<k, v>>
\* pairs by descending v, then ascending k.
SortsBefore(p, q) == p[2] > q[2] \/ (p[2] = q[2] /\ StrLess(p[1], q[1]))

RECURSIVE sorted_pairs(_)
sorted_pairs(S) ==
    IF S = {} THEN <<>>
    ELSE LET m == CHOOSE p \in S : \A q \in S \ {p} : SortsBefore(p, q)
         IN  <<m>> \o sorted_pairs(S \ {m})

iteritems(d) == { <<k, d[k]>> : k \in DOMAIN d }

\* dict(list of pairs)
dict_of(pairs) ==
    [k \in { pairs[i][1] : i \in 1..Len(pairs) } |->
        (CHOOSE p \in { pairs[i] : i \in 1..Len(pairs) } : p[1] = k)[2]]

\* The orders in which a Python 2 dict may list the keys S: the language
\* leaves the order to the implementation.
KeyOrders(S) ==
    { p \in [1..Cardinality(S) -> S] : \A i, j \in 1..Cardinality(S) : p[i] = p[j] => i = j }

InitWords ==
    /\ pc = "aggregate"
    /\ \E toks \in SeqsUpTo(Tokens, MaxEntries) :
          \E n \in 0..MaxItems :
             \E cuts \in [1..n -> 0..Len(toks)] :
                /\ \A i \in 1..(n - 1) : cuts[i] <= cuts[i + 1]
                /\ IF n = 0 THEN toks = <<>> ELSE cuts[n] = Len(toks)
                /\ db_items = ItemsOf(toks, cuts)
    /\ all_words = EmptyDict
    /\ item_i = 1
    /\ word_i = 1
    /\ top20 = EmptyDict
    /\ x = <<>>
    /\ frequency = <<>>

\* One pass of the inner loop, lines 257-264.
AggregateWord ==
    /\ pc = "aggregate"
    /\ item_i <= Len(db_items)
    /\ word_i <= Len(db_items[item_i].words)
    /\ LET word == db_items[item_i].words[word_i]
           fields == str_split(word, ":")
       IN  IF Len(fields) < 2
           THEN \* word.split(':')[1] raises IndexError, which nothing catches
                /\ pc' = "IndexError"
                /\ UNCHANGED <<all_words, word_i>>
           ELSE IF int_raises_ValueError(fields[2])
           THEN \* except ValueError: pass
                /\ word_i' = word_i + 1
                /\ UNCHANGED <<pc, all_words>>
           ELSE /\ all_words' = count_word(all_words, word)
                /\ word_i' = word_i + 1
                /\ UNCHANGED pc
    /\ UNCHANGED <<db_items, item_i, top20, x, frequency>>
    /\ UNCHANGED <<splitVars, seriesVars, landsatVars, newsVars>>
    /\ UNCHANGED <<sceneMetaData, cloudVars>>

\* The outer loop takes the next item, line 256.
NextItem ==
    /\ pc = "aggregate"
    /\ item_i <= Len(db_items)
    /\ word_i > Len(db_items[item_i].words)
    /\ item_i' = item_i + 1
    /\ word_i' = 1
    /\ UNCHANGED <<pc, db_items, all_words, top20, x, frequency>>
    /\ UNCHANGED <<splitVars, seriesVars, landsatVars, newsVars>>
    /\ UNCHANGED <<sceneMetaData, cloudVars>>

\* Lines 266-270, after the loop: the sorted pairs, cut, made a dict again,
\* whose keys() and values() the plot then takes.
SelectTop20 ==
    /\ pc = "aggregate"
    /\ item_i > Len(db_items)
    /\ LET t == dict_of(Take(sorted_pairs(iteritems(all_words)), TopK))
       IN  /\ top20' = t
           /\ \E order \in KeyOrders(DOMAIN t) :
                 /\ x' = order
                 /\ frequency' = [i \in 1..Len(order) |-> t[order[i]]]
    /\ pc' = "plotted"
    /\ UNCHANGED <<db_items, all_words, item_i, word_i>>
    /\ UNCHANGED <<splitVars, seriesVars, landsatVars, newsVars>>
    /\ UNCHANGED <<sceneMetaData, cloudVars>>

-----------------------------------------------------------------------------
(* Python values of the Landsat notebook: None and dicts *)

None == [kind |-> "None"]

Dict(d) == [kind |-> "dict", d |-> d]

\* bool(v), as filter(None, ...) applies it: None and the empty dict are false.
Truthy(v) == v.kind = "dict" /\ DOMAIN v.d # {}

\* 'f' in obs
has_key(obs, f) == f \in DOMAIN obs.d

Fields == {"date", "ndvi", "cloud"}

Vals == {1, 2}

\* A result of l8_ndvi.point with the fields D: the date as a day number, the
\* ndvi in hundredths, the cloud cover in percent.
NDVIDict(D, v) ==
    Dict([f \in D |-> IF f = "cloud" THEN 100 * v ELSE IF f = "ndvi" THEN 30 * v ELSE v])

\* What a remote getNDVI may hand back: nothing, or a dict with any of the fields.
ResultValues == {None} \cup { NDVIDict(D, v) : D \in SUBSET Fields, v \in Vals }

\* What the remote workers of the orchestration model hand back.
NDVIResults == {None} \cup { NDVIDict(Fields, v) : v \in Vals }

\* filter(None, l) on a list: the entries that are true, in order.
filter_None(l) == SelectSeq(l, Truthy)

\* [obs[f] for obs in l if f in obs] built in reverse.
project_reversed(l, f) ==
    LET kept == SelectSeq(l, LAMBDA obs : has_key(obs, f))
    IN  [i \in 1..Len(kept) |-> kept[Len(kept) + 1 - i].d[f]]

\* [obs[f] for obs in l if f in obs]
project(l, f) ==
    LET kept == SelectSeq(l, LAMBDA obs : has_key(obs, f))
    IN  [i \in 1..Len(kept) |-> kept[i].d[f]]

\* datetime.datetime.strptime(d, '%Y-%m-%d') of a well-formed date
strptime(d) == [datetime |-> d]

\* The cell colour of the table, lines 683-688 (ndvi in hundredths).
bgcolor(ndvi) ==
    IF ndvi > 50 THEN "#00FF00" ELSE IF ndvi > 10 THEN "#FFFF00" ELSE "#FF0000"

abs(n) == IF n < 0 THEN -n ELSE n

\* One row of the table, lines 679-690.
html_row(obs) ==
    [date |-> obs.d["date"], cloud |-> obs.d["cloud"],
     bgcolor |-> bgcolor(obs.d["ndvi"]), ndvi |-> abs(obs.d["ndvi"])]

-----------------------------------------------------------------------------
(* The Landsat notebook: lines 544-547, 653-656, 673-692, 708-713, 760-763,
   804-806, 822-827 *)

SceneLimit == 200

\* scene[-2:] and scene[:-2]
last2(scene) == SubSeq(scene, IF Len(scene) > 2 THEN Len(scene) - 1 ELSE 1, Len(scene))

drop2(scene) == SubSeq(scene, 1, Len(scene) - 2)

\* A record of sceneMetaData["results"]: the field getSceneList reads, a path
\* whose last but one component is the scene identifier.
MetaRecord(scene) == [aws_index |-> <<"p", "/">> \o scene \o <<"/", "i">>]

\* The scene identifiers of the model: a two-digit version suffix, after a
\* product prefix or alone.
MetaRecords ==
    { MetaRecord(prefix \o <<"0", d>>) : prefix \in {<<>>, <<"L">>}, d \in Digits }

\* The body of the loop with the suffix tests in the order '03', '02', '01'.
scene_of_03_first(record) ==
    LET parts == str_split(record.aws_index, "/")
        scene0 == parts[Len(parts) - 1]
        scene1 == IF last2(scene0) = <<"0", "3">> THEN drop2(scene0) \o <<"0", "2">> ELSE scene0
        scene2 == IF last2(scene1) = <<"0", "2">> THEN drop2(scene1) \o <<"0", "0">> ELSE scene1
        scene3 == IF last2(scene2) = <<"0", "1">> THEN drop2(scene2) \o <<"0", "0">> ELSE scene2
    IN  scene3

\* The body of the loop, lines 510-518: record['aws_index'].split('/')[-2],
\* then the three if statements one after the other, each testing the scene
\* as the statements before it left it.
scene_of(record) ==
    LET parts == str_split(record.aws_index, "/")
        scene0 == parts[Len(parts) - 1]
        scene1 == IF last2(scene0) = <<"0", "1">> THEN drop2(scene0) \o <<"0", "0">> ELSE scene0
        scene2 == IF last2(scene1) = <<"0", "2">> THEN drop2(scene1) \o <<"0", "0">> ELSE scene1
        scene3 == IF last2(scene2) = <<"0", "3">> THEN drop2(scene2) \o <<"0", "2">> ELSE scene2
    IN  scene3

\* getSceneList, lines 499-520, from the parsed response on: one scene
\* appended per record.
getSceneList(records) == [i \in 1..Len(records) |-> scene_of(records[i])]

\* The response of the API for a location with n scenes, in the orchestration
\* model: the versions 01, 02, 03, ... in turn.
SceneMetaData(n) ==
    [i \in 1..n |-> MetaRecord(<<"L", "0", <<"0", "1", "2", "3", "4">>[(i % 5) + 1]>>)]

\* The responses the orchestration model takes.
ApiResponses == { SceneMetaData(n) : n \in 0..MaxScenes }

Future(state, value) == [state |-> state, value |-> value]

PENDING == Future("pending", None)

HUNG == Future("hung", None)

\* The results of the location the notebook is working on.
current_results == IF loc = "HK" THEN resultsHK ELSE resultsQLD

\* scenesHK = getSceneList(...) / scenesQLD = getSceneList(lonLat), where
\* the API answers with one of responses.
getSceneList_call(responses) ==
    /\ pc = "getSceneList"
    /\ \E response \in responses :
          /\ sceneMetaData' = response
          /\ IF loc = "HK"
             THEN scenesHK' = getSceneList(response) /\ UNCHANGED scenesQLD
             ELSE scenesQLD' = getSceneList(response) /\ UNCHANGED scenesHK
    /\ pc' = "map"
    /\ UNCHANGED <<loc, futures, resultsHK, resultsQLD, results, html>>
    /\ UNCHANGED <<splitVars, wordVars, seriesVars, newsVars>>
    /\ UNCHANGED cloudVars

GetSceneList == getSceneList_call(ApiResponses)

\* getSceneList on any response of up to MaxScenes records.
CallGetSceneList == getSceneList_call(SeqsUpTo(MetaRecords, MaxScenes))

\* pwex.map(getNDVI, scenesHK[:200]) / pwex.map(getNDVI, scenesQLD): one
\* future per input, none resolved yet.
Map ==
    /\ pc = "map"
    /\ LET inputs == IF loc = "HK" THEN Take(scenesHK, SceneLimit) ELSE scenesQLD
       IN  futures' = [i \in 1..Len(inputs) |-> PENDING]
    /\ pc' = "get_all_results"
    /\ UNCHANGED <<loc, scenesHK, scenesQLD, resultsHK, resultsQLD, results, html>>
    /\ UNCHANGED <<splitVars, wordVars, seriesVars, newsVars>>
    /\ UNCHANGED <<sceneMetaData, cloudVars>>

\* A remote worker finishes item i with the value getNDVI returned.
ResolveNDVI(i) ==
    /\ pc = "get_all_results"
    /\ i \in DOMAIN futures
    /\ futures[i].state = "pending"
    /\ \E r \in NDVIResults : futures' = [futures EXCEPT ![i] = Future("done", r)]
    /\ UNCHANGED <<pc, loc, scenesHK, scenesQLD, resultsHK, resultsQLD, results, html>>
    /\ UNCHANGED <<splitVars, wordVars, seriesVars, newsVars>>
    /\ UNCHANGED <<sceneMetaData, cloudVars>>

\* The remote item i is lost: its future never resolves.
Hang(i) ==
    /\ i \in DOMAIN futures
    /\ futures[i].state = "pending"
    /\ futures' = [futures EXCEPT ![i] = HUNG]
    /\ UNCHANGED <<pc, loc, scenesHK, scenesQLD, resultsHK, resultsQLD, results, html>>
    /\ UNCHANGED <<splitVars, wordVars, seriesVars, newsVars>>
    /\ UNCHANGED <<sceneMetaData, cloudVars>>

\* A wait that returns as soon as one future has resolved.
any_completed(fs) == fs = <<>> \/ \E i \in DOMAIN fs : fs[i].state = "done"

\* pywren.get_all_results(fs) returns once every future of fs has resolved;
\* the call is given no timeout.
all_completed(fs) == \A i \in DOMAIN fs : fs[i].state = "done"

\* get_all_results with a deadline: the unresolved items are returned as None.
GetAllResultsWithTimeout ==
    /\ pc = "get_all_results"
    /\ \A i \in DOMAIN futures : futures[i].state # "pending"
    /\ LET got == [i \in DOMAIN futures |->
                      IF futures[i].state = "done" THEN futures[i].value ELSE None]
       IN  IF loc = "HK"
           THEN resultsHK' = got /\ pc' = "render" /\ UNCHANGED resultsQLD
           ELSE resultsQLD' = got /\ pc' = "project" /\ UNCHANGED resultsHK
    /\ UNCHANGED <<loc, scenesHK, scenesQLD, futures, results, html>>
    /\ UNCHANGED <<splitVars, wordVars, seriesVars, newsVars>>
    /\ UNCHANGED <<sceneMetaData, cloudVars>>

\* resultsHK = pywren.get_all_results(...) / resultsQLD = ...: the values of
\* the futures, in the order of the inputs.
GetAllResults ==
    /\ pc = "get_all_results"
    /\ all_completed(futures)
    /\ LET got == [i \in DOMAIN futures |-> futures[i].value]
       IN  IF loc = "HK"
           THEN resultsHK' = got /\ pc' = "render" /\ UNCHANGED resultsQLD
           ELSE resultsQLD' = got /\ pc' = "project" /\ UNCHANGED resultsHK
    /\ UNCHANGED <<loc, scenesHK, scenesQLD, futures, results, html>>
    /\ UNCHANGED <<splitVars, wordVars, seriesVars, newsVars>>
    /\ UNCHANGED <<sceneMetaData, cloudVars>>

\* A table cell that filters the list it was given in place
\* (resultsHK[:] = filter(None, resultsHK)) before it renders it.
RenderTableInPlace ==
    /\ pc = "render"
    /\ resultsHK' = filter_None(resultsHK)
    /\ results' = resultsHK'
    /\ IF \A i \in 1..Len(results') : Fields \subseteq DOMAIN results'[i].d
       THEN /\ html' = [i \in 1..Len(results') |-> html_row(results'[i])]
            /\ pc' = "project"
       ELSE /\ html' = <<>>
            /\ pc' = "KeyError"
    /\ UNCHANGED <<loc, scenesHK, scenesQLD, futures, resultsQLD>>
    /\ UNCHANGED <<splitVars, wordVars, seriesVars, newsVars>>
    /\ UNCHANGED <<sceneMetaData, cloudVars>>

\* The table cell, lines 673-692: x['date'], x['cloud'], x['ndvi'] raise
\* KeyError on a record that lacks the field.
RenderTable ==
    /\ pc = "render"
    /\ results' = filter_None(resultsHK)
    /\ IF \A i \in 1..Len(results') : Fields \subseteq DOMAIN results'[i].d
       THEN /\ html' = [i \in 1..Len(results') |-> html_row(results'[i])]
            /\ pc' = "project"
       ELSE /\ html' = <<>>
            /\ pc' = "KeyError"
    /\ UNCHANGED <<loc, scenesHK, scenesQLD, futures, resultsHK, resultsQLD>>
    /\ UNCHANGED <<splitVars, wordVars, seriesVars, newsVars>>
    /\ UNCHANGED <<sceneMetaData, cloudVars>>

\* Lines 708-713 and 822-827: the filter and the three projections.
ProjectSeries ==
    /\ pc = "project"
    /\ timeSeries' = filter_None(current_results)
    /\ timeStamps' = [i \in 1..Len(project(timeSeries', "date")) |->
                         strptime(project(timeSeries', "date")[i])]
    /\ ndviSeries' = project(timeSeries', "ndvi")
    /\ cloudSeries' = [i \in 1..Len(project(timeSeries', "cloud")) |->
                          project(timeSeries', "cloud")[i] \div 100]
    /\ IF loc = "HK"
       THEN loc' = "QLD" /\ pc' = "getSceneList"
       ELSE loc' = loc /\ pc' = "done"
    /\ UNCHANGED <<scenesHK, scenesQLD, futures, resultsHK, resultsQLD, results, html>>
    /\ UNCHANGED <<splitVars, wordVars, newsVars>>
    /\ UNCHANGED <<sceneMetaData, cloudVars>>

-----------------------------------------------------------------------------
(* The news notebook: lines 123-124, 191-193, 209-210, 229-231, 255-270 *)

\* The number of parts of split_list(links[0], wanted_parts=50), scaled down.
NewsParts == 2

\* The number of items one page of table.scan() holds: DynamoDB ends a page
\* at 1 MB; the model counts every item as one unit of size.
PageLimit == 2

\* links_without_duplicates[:1000] of n links (line 109); the URLs are kept
\* abstract.
Links(n) == [i \in 1..n |-> i]

\* str(sentiment['compound']) as news_analyzer stores it (line 176), and the
\* float(...) of line 231, in hundredths.
float_(str) == (("0.5" :> 50) @@ ("-0.5" :> -50))[str]

\* What news_analyzer may find for a link: the compound sentiment and the
\* frequent words, as "word:count" strings (lines 173-180).
AnalyzerOutcomes ==
    { [sentiment |-> "0.5", words |-> << <<"a", ":", "3">> >>],
      [sentiment |-> "-0.5", words |-> << <<"a", ":", "1">>, <<"b", ":", "2">> >>] }

\* dynamo_tbl.put_item(Item=record): the item replaces the one with its key.
put_item(t, record) == { r \in t : r.link # record.link } \cup {record}

RECURSIVE put_items(_, _)
put_items(t, records) ==
    IF records = <<>> THEN t ELSE put_items(put_item(t, Head(records)), Tail(records))

\* futures = wrenexec.map(GDELT_scrape.get_urls_from_gdelt_data, [file])
MapUrls ==
    /\ pc = "map_urls"
    /\ futures' = <<PENDING>>
    /\ pc' = "get_links"
    /\ UNCHANGED <<loc, scenesHK, scenesQLD, resultsHK, resultsQLD, results, html>>
    /\ UNCHANGED <<splitVars, wordVars, seriesVars, newsVars>>
    /\ UNCHANGED <<sceneMetaData, cloudVars>>

\* The remote get_urls_from_gdelt_data returns its list of links.
ResolveUrls(i) ==
    /\ pc = "get_links"
    /\ i \in DOMAIN futures
    /\ futures[i].state = "pending"
    /\ \E n \in 0..MaxLinks : futures' = [futures EXCEPT ![i] = Future("done", Links(n))]
    /\ UNCHANGED <<pc, loc, scenesHK, scenesQLD, resultsHK, resultsQLD, results, html>>
    /\ UNCHANGED <<splitVars, wordVars, seriesVars, newsVars>>
    /\ UNCHANGED <<sceneMetaData, cloudVars>>

\* links = pywren.get_all_results(futures), line 124
GetLinks ==
    /\ pc = "get_links"
    /\ all_completed(futures)
    /\ links' = [i \in DOMAIN futures |-> futures[i].value]
    /\ pc' = "map_analyzer"
    /\ UNCHANGED <<table, sentiments>>
    /\ UNCHANGED <<splitVars, wordVars, seriesVars, landsatVars>>
    /\ UNCHANGED <<sceneMetaData, cloudVars>>

\* futures = wrenexec.map(GDELT_scrape.news_analyzer, split_list(links[0], ...))
MapAnalyzer ==
    /\ pc = "map_analyzer"
    /\ alist' = links[1]
    /\ wanted_parts' = NewsParts
    /\ batches' = split_list(links[1], NewsParts)
    /\ futures' = [i \in 1..Len(batches') |-> PENDING]
    /\ pc' = "get_analyzed"
    /\ UNCHANGED <<loc, scenesHK, scenesQLD, resultsHK, resultsQLD, results, html>>
    /\ UNCHANGED <<wordVars, seriesVars, newsVars>>
    /\ UNCHANGED <<sceneMetaData, cloudVars>>

\* The remote news_analyzer of batch i: one put_item per link of the batch
\* (lines 168-181).
ResolveAnalyzer(i) ==
    /\ pc = "get_analyzed"
    /\ i \in DOMAIN futures
    /\ futures[i].state = "pending"
    /\ \E found \in [1..Len(batches[i]) -> AnalyzerOutcomes] :
          table' = put_items(table,
                      [j \in 1..Len(batches[i]) |->
                          Item(batches[i][j], found[j].sentiment, found[j].words)])
    /\ futures' = [futures EXCEPT ![i] = Future("done", None)]
    /\ UNCHANGED <<links, sentiments>>
    /\ UNCHANGED <<pc, loc, scenesHK, scenesQLD, resultsHK, resultsQLD, results, html>>
    /\ UNCHANGED <<splitVars, wordVars, seriesVars>>
    /\ UNCHANGED <<sceneMetaData, cloudVars>>

\* pywren.get_all_results(futures), line 193: the values are dropped.
GetAnalyzed ==
    /\ pc = "get_analyzed"
    /\ all_completed(futures)
    /\ pc' = "scan"
    /\ UNCHANGED <<splitVars, wordVars, seriesVars, landsatVars, newsVars>>
    /\ UNCHANGED <<sceneMetaData, cloudVars>>

\* db_table = table.scan(), lines 209-210: one call, which returns one page
\* of the table, in the order the service chooses.
Scan ==
    /\ pc = "scan"
    /\ \E order \in KeyOrders(table) : db_items' = Take(order, PageLimit)
    /\ pc' = "sentiments"
    /\ UNCHANGED <<all_words, item_i, word_i, top20, x, frequency>>
    /\ UNCHANGED <<splitVars, seriesVars, landsatVars, newsVars>>
    /\ UNCHANGED <<sceneMetaData, cloudVars>>

\* The histogram cell, lines 229-231.
Sentiments ==
    /\ pc = "sentiments"
    /\ sentiments' = [i \in 1..Len(db_items) |-> float_(db_items[i].sentiment)]
    /\ pc' = "begin_aggregate"
    /\ UNCHANGED <<links, table>>
    /\ UNCHANGED <<splitVars, wordVars, seriesVars, landsatVars>>
    /\ UNCHANGED <<sceneMetaData, cloudVars>>

\* all_words = {} and the start of the loops, lines 255-256.
BeginAggregate ==
    /\ pc = "begin_aggregate"
    /\ all_words' = EmptyDict
    /\ item_i' = 1
    /\ word_i' = 1
    /\ pc' = "aggregate"
    /\ UNCHANGED <<db_items, top20, x, frequency>>
    /\ UNCHANGED <<splitVars, seriesVars, landsatVars, newsVars>>
    /\ UNCHANGED <<sceneMetaData, cloudVars>>

-----------------------------------------------------------------------------
(* The tag clouds and their index page, news notebook lines 335-394 *)

\* The most parts the tag cloud run splits its links into.
MaxCloudParts == 2

\* The most links of an index page built on its own.
MaxIndexLinks == 6

S3BUCKET == "pywren-workshop-s3bucket-12apl9us09h1d"

\* hashlib.md5(link).hexdigest(): a digest that tells the model's links apart.
md5(link) == <<"md5", link>>

\* 'tagclouds/' + hashlib.md5(link).hexdigest() + '.jpg', lines 343 and 383
tagcloud_key(link) == <<"tagclouds/", md5(link), ".jpg">>

\* 'https://s3-us-west-2.amazonaws.com/' + S3BUCKET + '/tagclouds/' + h + '.jpg'
tagcloud_url(link) == <<"https://s3-us-west-2.amazonaws.com/", S3BUCKET, "/">> \o tagcloud_key(link)

\* The pieces of the index page: the opening and closing of the table, of a
\* row, and the cell of line 384.
TableOpen == [tag |-> "<table>"]

TableClose == [tag |-> "</table>"]

RowOpen == [tag |-> "<tr>"]

RowClose == [tag |-> "</tr>"]

Cell(link) == [tag |-> "<td>", href |-> link, src |-> tagcloud_url(link)]

\* Lines 355-358: the links of the items read from the table.
BuildLinks ==
    /\ pc = "plotted"
    /\ tag_links' = [j \in 1..Len(db_items) |-> db_items[j].link]
    /\ pc' = "wordcloud_generator"
    /\ UNCHANGED <<s3_objects, output, link_i, index_i>>
    /\ UNCHANGED <<splitVars, wordVars, seriesVars, landsatVars, newsVars, sceneMetaData>>

\* Line 360, !python wordcloud_generator.py write: the links are dispatched
\* in batches to the remote executor.
MapTagclouds ==
    /\ pc = "wordcloud_generator"
    /\ \E parts \in 1..MaxCloudParts :
          /\ alist' = tag_links
          /\ wanted_parts' = parts
          /\ batches' = split_list(tag_links, parts)
    /\ futures' = [j \in 1..Len(batches') |-> PENDING]
    /\ pc' = "get_tagclouds"
    /\ UNCHANGED <<loc, scenesHK, scenesQLD, resultsHK, resultsQLD, results, html>>
    /\ UNCHANGED <<wordVars, seriesVars, newsVars, sceneMetaData, cloudVars>>

\* The keys the worker of lines 339-344 writes for its batch: the return
\* statement is in the body of the loop, after the put of the first link.
tagcloud_worker(batch) == IF batch = <<>> THEN {} ELSE {tagcloud_key(batch[1])}

\* What the worker returns: 'Ok' from the loop body, None when the loop has
\* nothing to go through.
tagcloud_result(batch) == IF batch = <<>> THEN None ELSE [kind |-> "str", s |-> "Ok"]

\* The remote worker of batch j runs to its return.
ResolveTagcloud(j) ==
    /\ pc = "get_tagclouds"
    /\ j \in DOMAIN futures
    /\ futures[j].state = "pending"
    /\ s3_objects' = s3_objects \cup tagcloud_worker(batches[j])
    /\ futures' = [futures EXCEPT ![j] = Future("done", tagcloud_result(batches[j]))]
    /\ UNCHANGED <<tag_links, output, link_i, index_i>>
    /\ UNCHANGED <<pc, loc, scenesHK, scenesQLD, resultsHK, resultsQLD, results, html>>
    /\ UNCHANGED <<splitVars, wordVars, seriesVars, newsVars, sceneMetaData>>

\* The run of line 360 ends when every batch has resolved.
GetTagclouds ==
    /\ pc = "get_tagclouds"
    /\ all_completed(futures)
    /\ pc' = "index"
    /\ UNCHANGED <<splitVars, wordVars, seriesVars, landsatVars, newsVars>>
    /\ UNCHANGED <<sceneMetaData, cloudVars>>

\* Lines 378-380: the opening of the page and i = 1.
BeginIndex ==
    /\ pc = "index"
    /\ output' = <<TableOpen, RowOpen>>
    /\ index_i' = 1
    /\ link_i' = 1
    /\ pc' = "index_loop"
    /\ UNCHANGED <<tag_links, s3_objects>>
    /\ UNCHANGED <<splitVars, wordVars, seriesVars, landsatVars, newsVars, sceneMetaData>>

\* One pass of the loop, lines 381-387.
IndexCell ==
    /\ pc = "index_loop"
    /\ link_i <= Len(tag_links)
    /\ output' = output \o <<Cell(tag_links[link_i])>>
                     \o (IF index_i % 5 = 0 THEN <<RowClose, RowOpen>> ELSE <<>>)
    /\ index_i' = index_i + 1
    /\ link_i' = link_i + 1
    /\ UNCHANGED <<pc, tag_links, s3_objects>>
    /\ UNCHANGED <<splitVars, wordVars, seriesVars, landsatVars, newsVars, sceneMetaData>>

\* Lines 389-392: the closing of the page and its put to the bucket.
EndIndex ==
    /\ pc = "index_loop"
    /\ link_i > Len(tag_links)
    /\ output' = output \o <<RowClose, TableClose>>
    /\ s3_objects' = s3_objects \cup {<<"tagclouds/index.html">>}
    /\ pc' = "indexed"
    /\ UNCHANGED <<tag_links, link_i, index_i>>
    /\ UNCHANGED <<splitVars, wordVars, seriesVars, landsatVars, newsVars, sceneMetaData>>

\* The links of the items of a table: distinct, in any order.
InitIndex ==
    /\ pc = "index"
    /\ \E n \in 0..MaxIndexLinks : \E order \in KeyOrders(1..n) : tag_links = order
    /\ s3_objects = {}
    /\ output = <<>>
    /\ link_i = 1
    /\ index_i = 1

-----------------------------------------------------------------------------
(* The specifications *)

IdleSplit == alist = <<>> /\ wanted_parts = 1 /\ batches = <<>>

IdleWords ==
    /\ db_items = <<>>
    /\ all_words = EmptyDict
    /\ item_i = 1
    /\ word_i = 1
    /\ top20 = EmptyDict
    /\ x = <<>>
    /\ frequency = <<>>

IdleSeries ==
    /\ timeSeries = <<>>
    /\ timeStamps = <<>>
    /\ ndviSeries = <<>>
    /\ cloudSeries = <<>>

IdleLandsat ==
    /\ loc = "HK"
    /\ scenesHK = <<>>
    /\ scenesQLD = <<>>
    /\ futures = <<>>
    /\ resultsHK = <<>>
    /\ resultsQLD = <<>>
    /\ results = <<>>
    /\ html = <<>>

IdleNews == links = <<>> /\ table = {} /\ sentiments = <<>>

IdleScenes == sceneMetaData = <<>>

IdleCloud ==
    /\ tag_links = <<>>
    /\ s3_objects = {}
    /\ output = <<>>
    /\ link_i = 1
    /\ index_i = 1

SplitInit ==
    InitSplit /\ IdleWords /\ IdleSeries /\ IdleLandsat /\ IdleNews /\ IdleScenes /\ IdleCloud

NextSplit == CallSplitList

SpecSplit == SplitInit /\ [][NextSplit]_vars

NextWords == AggregateWord \/ NextItem \/ SelectTop20

WordsInit ==
    InitWords /\ IdleSplit /\ IdleSeries /\ IdleLandsat /\ IdleNews /\ IdleScenes /\ IdleCloud

SpecWords == WordsInit /\ [][NextWords]_vars

\* The results of a finished get_all_results, any list of result values: for
\* Hong Kong before the table cell, for Queensland before the projections.
InitSeries ==
    /\ loc \in {"HK", "QLD"}
    /\ pc = IF loc = "HK" THEN "render" ELSE "project"
    /\ \E rs \in SeqsUpTo(ResultValues, MaxResults) :
          /\ resultsHK = IF loc = "HK" THEN rs ELSE <<>>
          /\ resultsQLD = IF loc = "QLD" THEN rs ELSE <<>>
          /\ futures = [i \in 1..Len(rs) |-> Future("done", rs[i])]
    /\ scenesHK = <<>>
    /\ scenesQLD = <<>>
    /\ results = <<>>
    /\ html = <<>>

ScenesInit ==
    /\ pc = "getSceneList"
    /\ IdleLandsat /\ IdleSplit /\ IdleWords /\ IdleSeries /\ IdleNews
    /\ IdleScenes /\ IdleCloud

NextScenes == CallGetSceneList

SpecScenes == ScenesInit /\ [][NextScenes]_vars

IndexInit ==
    InitIndex /\ IdleSplit /\ IdleWords /\ IdleSeries /\ IdleLandsat /\ IdleNews /\ IdleScenes

NextIndex == BeginIndex \/ IndexCell \/ EndIndex

SpecIndex == IndexInit /\ [][NextIndex]_vars

NextSeries == RenderTable \/ ProjectSeries

SeriesInit ==
    InitSeries /\ IdleSplit /\ IdleWords /\ IdleSeries /\ IdleNews /\ IdleScenes /\ IdleCloud

SpecSeries == SeriesInit /\ [][NextSeries]_vars

\* The kernel is about to run one of the two notebooks from its first cell.
Init ==
    /\ pc \in {"getSceneList", "map_urls"}
    /\ IdleLandsat /\ IdleSplit /\ IdleWords /\ IdleSeries /\ IdleNews
    /\ IdleScenes /\ IdleCloud

LandsatNotebook == GetSceneList \/ Map \/ GetAllResults \/ RenderTable \/ ProjectSeries

NewsNotebook ==
    \/ MapUrls \/ GetLinks \/ MapAnalyzer \/ GetAnalyzed \/ Scan \/ Sentiments
    \/ BeginAggregate \/ AggregateWord \/ NextItem \/ SelectTop20
    \/ BuildLinks \/ MapTagclouds \/ GetTagclouds \/ BeginIndex \/ IndexCell \/ EndIndex

Notebook == LandsatNotebook \/ NewsNotebook

\* The most futures one map returns.
MaxFutures ==
    LET m == IF MaxScenes > NewsParts THEN MaxScenes ELSE NewsParts
    IN  IF m > MaxCloudParts THEN m ELSE MaxCloudParts

RemoteItem(i) ==
    ResolveNDVI(i) \/ ResolveUrls(i) \/ ResolveAnalyzer(i) \/ ResolveTagcloud(i) \/ Hang(i)

Remote == \E i \in 1..MaxFutures : RemoteItem(i)

Next == Notebook \/ Remote

Spec == Init /\ [][Next]_vars

\* The kernel runs the cells it can run; every remote item comes to an end,
\* resolved or lost.
FairSpec ==
    /\ Spec
    /\ WF_vars(Notebook)
    /\ \A i \in 1..MaxFutures : WF_vars(RemoteItem(i))

-----------------------------------------------------------------------------
(* Claims about split_list, checked under SpecSplit *)

SplitDone == pc = "split_done"

BatchSizes == { Len(batches[i]) : i \in 1..Len(batches) }

\* C1: for every list and every wanted_parts >= 1, the sub-lists that
\* split_list returns, concatenated in order, are exactly the list: nothing is
\* lost, duplicated or reordered.
C1_ConcatenationIsInput == SplitDone => Flatten(batches) = alist

\* C1 witness: a split of at least three items into at least two parts, with
\* a remainder.
C1_Witness ==
    /\ SplitDone
    /\ wanted_parts >= 2
    /\ Len(alist) >= 3
    /\ Len(alist) % wanted_parts # 0

\* C2: the sizes of the returned sub-lists differ by at most one.
C2_SizesDifferByAtMostOne ==
    SplitDone => \A m, n \in BatchSizes : m - n <= 1

\* C2 witness: a split whose sub-lists have two different sizes.
C2_Witness == SplitDone /\ Cardinality(BatchSizes) = 2 /\ Len(alist) > wanted_parts

FiveItems == <<"u1", "u2", "u3", "u4", "u5">>

\* C3 as stated: [u1,u2,u3,u4,u5] with 2 parts gives [u1,u2,u3] and [u4,u5].
C3_AsStated ==
    (SplitDone /\ alist = FiveItems /\ wanted_parts = 2)
        => batches = << <<"u1", "u2", "u3">>, <<"u4", "u5">> >>

\* C3 as amended: [u1,u2,u3,u4,u5] with 2 parts gives [u1,u2] and
\* [u3,u4,u5]: the cut points are rounded down, so the shorter part is first.
C3_FiveInTwo ==
    (SplitDone /\ alist = FiveItems /\ wanted_parts = 2)
        => batches = << <<"u1", "u2">>, <<"u3", "u4", "u5">> >>

\* C3 witness: the five items have been split in two parts.
C3_Witness == SplitDone /\ alist = FiveItems /\ wanted_parts = 2

\* C4: split_list returns exactly wanted_parts sub-lists; when the list is
\* shorter than wanted_parts (the empty list included) every item is alone in
\* its sub-list and the wanted_parts - length other sub-lists are empty.
C4_ExactlyPParts ==
    SplitDone =>
        /\ Len(batches) = wanted_parts
        /\ Len(alist) < wanted_parts =>
              /\ \A i \in 1..Len(batches) : Len(batches[i]) <= 1
              /\ Cardinality({ i \in 1..Len(batches) : batches[i] = <<>> })
                     = wanted_parts - Len(alist)

\* C4 witness: a non-empty list split into more parts than it has items.
C4_Witness ==
    /\ SplitDone
    /\ Len(alist) > 0
    /\ Len(alist) < wanted_parts
    /\ \E i \in 1..Len(batches) : batches[i] = <<>>

-----------------------------------------------------------------------------
(* Claims about the word-frequency aggregation, checked under SpecWords *)

\* The loop of lines 256-264 has run to its end.
LoopDone == (pc = "aggregate" /\ item_i > Len(db_items)) \/ pc = "plotted"

\* An entry of the form word:integer: one separator, decimal digits after it.
Colons(tok) == { i \in 1..Len(tok) : tok[i] = ":" }

WellFormed(tok) ==
    /\ Cardinality(Colons(tok)) = 1
    /\ LET c == CHOOSE i \in Colons(tok) : TRUE
       IN  /\ c < Len(tok)
           /\ \A i \in (c + 1)..Len(tok) : tok[i] \in Digits

EntryToken(tok) == SubSeq(tok, 1, (CHOOSE i \in Colons(tok) : TRUE) - 1)

EntryCount(tok) == int_value(SubSeq(tok, (CHOOSE i \in Colons(tok) : TRUE) + 1, Len(tok)))

\* All entries of all records, in the order of the table.
AllEntries == Flatten([i \in 1..Len(db_items) |-> db_items[i].words])

\* The entries the loop has gone past.
EntriesDone ==
    IF item_i > Len(db_items) THEN AllEntries
    ELSE Flatten([i \in 1..(item_i - 1) |-> db_items[i].words])
            \o SubSeq(db_items[item_i].words, 1, word_i - 1)

\* The sum of the counts of the well-formed entries of toks with token k.
RECURSIVE CountFor(_, _)
CountFor(toks, k) ==
    IF toks = <<>> THEN 0
    ELSE (IF WellFormed(Head(toks)) /\ EntryToken(Head(toks)) = k
          THEN EntryCount(Head(toks)) ELSE 0) + CountFor(Tail(toks), k)

TokensOf(toks) ==
    { EntryToken(toks[i]) : i \in { j \in 1..Len(toks) : WellFormed(toks[j]) } }

\* C5: the aggregation never raises, and at every point of the loop the count
\* map holds exactly the well-formed entries gone past: a malformed entry
\* leaves it unchanged, the well-formed ones before and after it are counted.
C5_SkipsMalformed ==
    /\ pc # "IndexError"
    /\ pc = "aggregate" =>
          /\ DOMAIN all_words = TokensOf(EntriesDone)
          /\ \A k \in DOMAIN all_words : all_words[k] = CountFor(EntriesDone, k)

\* C6: after the aggregation the count of each token is the sum of the counts
\* of the well-formed entries with that token, and a token is a key exactly
\* when there is such an entry.
C6_CountsAreSums ==
    LoopDone =>
        /\ \A k \in DOMAIN all_words : all_words[k] = CountFor(AllEntries, k)
        /\ \A k \in TokensOf(AllEntries) \cup DOMAIN all_words :
              k \in DOMAIN all_words <=> k \in TokensOf(AllEntries)

\* The keys of all_words in the order of the claim: by descending count, ties
\* by ascending token, the first TopK of them.
IsTopKInOrder(s) ==
    LET keys == DOMAIN all_words
        before(j, k) ==
            all_words[j] > all_words[k] \/ (all_words[j] = all_words[k] /\ StrLess(j, k))
    IN  /\ Len(s) = Min(TopK, Cardinality(keys))
        /\ \A i \in 1..Len(s) : s[i] \in keys
        /\ \A i, j \in 1..Len(s) : i < j => before(s[i], s[j])
        /\ \A i \in 1..Len(s) :
              \A k \in keys \ { s[j] : j \in 1..Len(s) } : before(s[i], k)

\* C7: the top-K result, as the plot takes it (x and frequency), lists the K
\* entries by descending count, ties by ascending token.
C7_TopKInOrder ==
    pc = "plotted" =>
        /\ IsTopKInOrder(x)
        /\ frequency = [i \in 1..Len(x) |-> all_words[x[i]]]

-----------------------------------------------------------------------------
(* Claims about the series, checked under SpecSeries *)

\* The projection cell has run: for Hong Kong the notebook has moved on to
\* Queensland, for Queensland it is at its end.
ProjectedHK == pc = "getSceneList" /\ loc = "QLD"

ProjectedQLD == pc = "done"

Projected == ProjectedHK \/ ProjectedQLD

\* The list of remote results the projection cell read.
ProjectedFrom == IF ProjectedQLD THEN resultsQLD ELSE resultsHK

\* A null/absent entry: None or an empty result.
Absent(v) == v = None \/ v = Dict(<<>>)

NumAbsent(rs) == Cardinality({ i \in 1..Len(rs) : Absent(rs[i]) })

\* The present entries of rs that lack field f.
NumLacking(rs, f) ==
    Cardinality({ i \in 1..Len(rs) : ~Absent(rs[i]) /\ f \notin DOMAIN rs[i].d })

\* The values of field f of the present entries of rs that carry it, in order.
RECURSIVE ValuesOf(_, _)
ValuesOf(rs, f) ==
    IF rs = <<>> THEN <<>>
    ELSE (IF ~Absent(Head(rs)) /\ f \in DOMAIN Head(rs).d
          THEN <<Head(rs).d[f]>> ELSE <<>>) \o ValuesOf(Tail(rs), f)

-----------------------------------------------------------------------------
(* Claims about the orchestration, checked under Spec and FairSpec *)

\* The positions at which the notebook is inside pywren.get_all_results.
Awaiting == {"get_all_results", "get_links", "get_analyzed", "get_tagclouds"}

\* The notebook has run its last cell.
Finished == pc \in {"done", "indexed"}

Unresolved == { i \in DOMAIN futures : futures[i].state # "done" }

SomeHung == \E i \in DOMAIN futures : futures[i].state = "hung"

\* C9: the notebook is strictly synchronous: whenever it is anywhere but
\* blocked in get_all_results (the table cell, the projections, the next
\* getSceneList, the end), no remote item of the last map is unresolved.
C9_LocalStepsAfterAllResolved == pc \notin Awaiting => Unresolved = {}

\* C9 witness: the notebook is at a local step that follows a map of two or
\* more items.
C9_Witness == pc \in {"render", "project", "scan", "aggregate", "index"} /\ Len(futures) >= 2

-----------------------------------------------------------------------------
(* Claims about getSceneList, checked under SpecScenes *)

\* getSceneList has returned.
ScenesListed == pc = "map"

\* The scene identifier a metadata record names: its path without the first
\* component and the last.
NamedScene(record) == SubSeq(record.aws_index, 3, Len(record.aws_index) - 2)

\* The table of the claim.
RewriteTable(suffix) ==
    IF suffix = <<"0", "1">> THEN <<"0", "0">>
    ELSE IF suffix = <<"0", "2">> THEN <<"0", "0">>
    ELSE IF suffix = <<"0", "3">> THEN <<"0", "2">>
    ELSE suffix

\* C16: getSceneList returns one identifier per metadata record, in the
\* order of the records; each is the record's identifier with its
\* two-character suffix rewritten once by the table 01 -> 00, 02 -> 00,
\* 03 -> 02 (so a 03 ends as 02, never 00), any other suffix unchanged; no
\* returned identifier ends in 01 or 03.
C16_SuffixRewrittenOnce ==
    ScenesListed =>
        /\ Len(scenesHK) = Len(sceneMetaData)
        /\ \A i \in 1..Len(sceneMetaData) :
              LET named == NamedScene(sceneMetaData[i])
              IN  /\ scenesHK[i] = drop2(named) \o RewriteTable(last2(named))
                  /\ last2(scenesHK[i]) \notin {<<"0", "1">>, <<"0", "3">>}

\* C16 witness: a list of two records, the first with suffix 03, the second
\* with suffix 01, has been rewritten to 02 and 00.
C16_Witness ==
    /\ ScenesListed
    /\ Len(sceneMetaData) = 2
    /\ last2(NamedScene(sceneMetaData[1])) = <<"0", "3">>
    /\ last2(NamedScene(sceneMetaData[2])) = <<"0", "1">>
    /\ last2(scenesHK[1]) = <<"0", "2">>
    /\ last2(scenesHK[2]) = <<"0", "0">>

-----------------------------------------------------------------------------
(* Claims about the tag clouds and their index page, checked under Spec and
   SpecIndex *)

\* The tag cloud run of line 360 has completed.
TagcloudsDone == pc \in {"index", "index_loop", "indexed"}

\* The cells of the page, in order.
CellsOf(page) == SelectSeq(page, LAMBDA piece : piece.tag = "<td>")

\* C11: after the tag-cloud stage has completed, for every link taken from
\* the result table an image object is stored under 'tagclouds/' + md5(link)
\* + '.jpg', and that is the key the cell of the link in the index page
\* references: no cell points at an image that was never written.
C11_ImagesForAllLinks ==
    TagcloudsDone =>
        /\ \A j \in 1..Len(tag_links) : tagcloud_key(tag_links[j]) \in s3_objects
        /\ \A k \in 1..Len(CellsOf(output)) :
              LET cell == CellsOf(output)[k]
              IN  /\ cell.src = <<"https://s3-us-west-2.amazonaws.com/", S3BUCKET, "/">>
                                    \o tagcloud_key(cell.href)
                  /\ tagcloud_key(cell.href) \in s3_objects

\* The index page has been completed and put to the bucket.
Indexed == pc = "indexed"

\* The numbers of cells of the rows of a page, in order; n counts the cells
\* of the row being read.
RECURSIVE RowSizes(_, _)
RowSizes(page, n) ==
    IF page = <<>> THEN <<>>
    ELSE IF Head(page).tag = "<td>" THEN RowSizes(Tail(page), n + 1)
    ELSE IF Head(page).tag = "</tr>" THEN <<n>> \o RowSizes(Tail(page), 0)
    ELSE RowSizes(Tail(page), n)

\* C17: the index page holds one cell per link, in the order of the links
\* list; no row holds more than 5 cells; a row break comes after every 5th
\* link and only then (every row before the last holds 5 cells), for any
\* number of links, 0 and the multiples of 5 included; and every row holds at
\* least one cell.
C17_RowsOfFive ==
    Indexed =>
        LET cells == CellsOf(output)
            rows == RowSizes(output, 0)
        IN  /\ Len(cells) = Len(tag_links)
            /\ \A k \in 1..Len(cells) : cells[k] = Cell(tag_links[k])
            /\ \A r \in 1..Len(rows) : rows[r] <= 5 /\ rows[r] >= 1
            /\ \A r \in 1..(Len(rows) - 1) : rows[r] = 5

-----------------------------------------------------------------------------
(* Claims about the read-back of the table, checked under Spec *)

\* The positions after db_table = table.scan().
Scanned ==
    pc \in {"sentiments", "begin_aggregate", "aggregate", "plotted", "wordcloud_generator",
            "get_tagclouds", "index", "index_loop", "indexed"}

\* The positions after the histogram cell.
SentimentsDone == Scanned /\ pc # "sentiments"

\* The positions after the aggregation loop.
Aggregated == Scanned /\ pc \notin {"sentiments", "begin_aggregate", "aggregate"}

\* The entries of the words lists of all records written to the table.
WrittenEntries ==
    LET order == CHOOSE o \in KeyOrders(table) : TRUE
    IN  Flatten([j \in 1..Len(order) |-> order[j].words])

\* C14: the read-back is a full scan: after the one table.scan() call every
\* record the remote workers wrote is in db_table['Items'], so the sentiment
\* series has exactly one value per written record and the words of every
\* written record are in the count map.
C14_FullScan ==
    /\ Scanned => \A r \in table : \E j \in 1..Len(db_items) : db_items[j] = r
    /\ SentimentsDone => Len(sentiments) = Cardinality(table)
    /\ Aggregated =>
          /\ DOMAIN all_words = TokensOf(WrittenEntries)
          /\ \A k \in DOMAIN all_words : all_words[k] = CountFor(WrittenEntries, k)

-----------------------------------------------------------------------------
(* A further claim about the series, checked under SpecSeries *)

\* C15: the three projected series stay index-aligned: for any list of remote
\* results (null entries, present records with any subset of the fields)
\* timeStamps, ndviSeries and cloudSeries have equal length and, at every
\* index, their elements come from the same record.
C15_SeriesAligned ==
    Projected =>
        /\ Len(timeStamps) = Len(ndviSeries)
        /\ Len(ndviSeries) = Len(cloudSeries)
        /\ \E from \in [1..Len(ndviSeries) -> 1..Len(ProjectedFrom)] :
              /\ \A j, k \in 1..Len(ndviSeries) : j < k => from[j] < from[k]
              /\ \A j \in 1..Len(ndviSeries) :
                    LET obs == ProjectedFrom[from[j]]
                    IN  /\ ~Absent(obs)
                        /\ Fields \subseteq DOMAIN obs.d
                        /\ timeStamps[j] = [datetime |-> obs.d["date"]]
                        /\ ndviSeries[j] = obs.d["ndvi"]
                        /\ cloudSeries[j] = obs.d["cloud"] \div 100

-----------------------------------------------------------------------------
(* A claim about what the local steps change, checked under Spec *)

\* s is the beginning of t.
IsPrefix(s, t) == Len(s) <= Len(t) /\ SubSeq(t, 1, Len(s)) = s

\* C13: no entity is mutated after creation.  The list of links changes only
\* where get_all_results returns it, so split_list leaves its input as it
\* was; the lists of results change only where get_all_results returns them
\* and the items read from the table only in the scan, so filtering,
\* projection, aggregation and rendering leave every record and every list of
\* results as they were; a record written to the table is never replaced.
\* The accumulating outputs only grow: the count map by keys and by
\* additions, the index page by appends, the bucket by puts.
C13_NoMutation ==
    [][ /\ (pc # "get_links" => links' = links)
        /\ (pc # "get_all_results" => (resultsHK' = resultsHK /\ resultsQLD' = resultsQLD))
        /\ (pc # "scan" => db_items' = db_items)
        /\ (pc # "plotted" => tag_links' = tag_links)
        /\ (pc # "get_analyzed" => table' = table)
        /\ table \subseteq table'
        /\ ((pc = "aggregate" /\ pc' = "aggregate") =>
               /\ DOMAIN all_words \subseteq DOMAIN all_words'
               /\ \A k \in DOMAIN all_words : all_words'[k] >= all_words[k])
        /\ (pc = "index_loop" => IsPrefix(output, output'))
        /\ s3_objects \subseteq s3_objects' ]_vars

\* C13 witness: the table cell has filtered and rendered a list of results
\* that holds a None, and the list still holds it.
C13_Witness ==
    /\ pc = "project"
    /\ loc = "HK"
    /\ \E j \in 1..Len(resultsHK) : resultsHK[j] = None
    /\ Len(results) < Len(resultsHK)
    /\ html # <<>>

====
